---- MODULE Spec2Model ----
(***************************************************************************)
(* UNO No Mercy rules engine (src/src/lib/game-logic.ts) as a state        *)
(* machine.  The game state is one record, as in the source; every engine  *)
(* function is an operator from a state and its arguments to the new state *)
(* or to Throw (the function threw).  Cards are identified by an integer   *)
(* id; the card an id denotes is looked up in the deck built by            *)
(* createDeck.  Spec is the game on one hook; SpecNet is the multiplayer   *)
(* game, with state the row of the games table and clients the hooks of    *)
(* the participants.                                                       *)
(***************************************************************************)
EXTENDS Integers, Sequences, FiniteSets, TLC

VARIABLES state, last, steps, clients

vars == <<state, last, steps, clients>>

-----------------------------------------------------------------------------
(* Bounds of the model *)

\* highest face value of the number cards built into the deck
MaxNumber == 1
\* number of seats of the room (maxPlayers)
MaxSeats == 3
\* number of random streams Math.random is drawn from
NumSeeds == 2
\* largest count handed to drawCards by a caller
MaxDrawCount == 17
\* number of game operations applied after startGame
MaxSteps == 4
\* number of values Math.random takes when the automated player draws one:
\* 0, 1/NumRandoms, ..., (NumRandoms - 1)/NumRandoms
NumRandoms == 4

(* Program constants *)

ActionCopies == 2
WildCopies == 4
NoMercyWildCopies == 2
HandSize == 7
\* the highest face value of the number cards createDeck builds
TopNumber == 9
EliminationLimit == 25
ChallengePenalty == 4
\* maxDraws of handleDrawCard
MaxDraws == 10

-----------------------------------------------------------------------------
(* Deck Builder *)

COLORS == <<"red", "blue", "green", "yellow">>

BaseColors == {COLORS[i] : i \in 1..Len(COLORS)}

NumberCard(color, v) == [type |-> "number", color |-> color, value |-> v]

TypedCard(type, color) == [type |-> type, color |-> color, value |-> -1]

\* a loop whose body runs once whatever its count
Once(s, n) == s

RECURSIVE Repeat(_, _)
Repeat(s, n) == IF n = 0 THEN <<>> ELSE s \o Repeat(s, n - 1)

\* the cards createDeck builds for one colour, the number cards up to top
ColorCardsUpTo(color, top) ==
    <<NumberCard(color, 0)>>
    \o [i \in 1..(2 * top) |-> NumberCard(color, (i + 1) \div 2)]
    \o Repeat(<<TypedCard("skip", color), TypedCard("reverse", color),
                TypedCard("draw2", color)>>, ActionCopies)
    \o <<TypedCard("draw6", color), TypedCard("skip_everyone", color),
         TypedCard("discard_all", color)>>

ColorCards(color) == ColorCardsUpTo(color, MaxNumber)

RECURSIVE ColoredCardsUpTo(_, _)
ColoredCardsUpTo(i, top) ==
    IF i > Len(COLORS) THEN <<>>
    ELSE ColorCardsUpTo(COLORS[i], top) \o ColoredCardsUpTo(i + 1, top)

ColoredCards(i) == ColoredCardsUpTo(i, MaxNumber)

\* createDeck with the number cards 1..top in place of 1..9
createDeckUpTo(top) ==
    ColoredCardsUpTo(1, top)
    \o Repeat(<<TypedCard("wild", "wild"), TypedCard("wild_draw4", "wild")>>,
              WildCopies)
    \o Repeat(<<TypedCard("wild_draw2", "wild"),
                TypedCard("wild_draw_color", "wild"),
                TypedCard("draw10", "wild"),
                TypedCard("color_roulette", "wild"),
                TypedCard("reverse_everyone", "wild")>>, NoMercyWildCopies)

\* the deck of the model: createDeck with the number cards 0..MaxNumber
createDeck == createDeckUpTo(MaxNumber)

\* the deck createDeck builds, number cards 0..9
FullDeck == createDeckUpTo(TopNumber)

Deck == createDeck

DeckSize == Len(Deck)

\* the ids uuidv4() gives the cards of a fresh deck
DeckIds == [i \in 1..DeckSize |-> i]

\* the card (type, color, value) an id denotes
Card(id) == Deck[((id - 1) % DeckSize) + 1]

\* the first position of the deck that holds a card like the one of id
Alike ==
    [id \in 1..((MaxSteps + 2) * DeckSize) |->
        CHOOSE i \in 1..DeckSize :
            /\ Deck[i] = Card(id)
            /\ \A j \in 1..(i - 1) : Deck[j] # Card(id)]

\* uuidv4() for a recycled card: an id no card in play carries
FreshId(id) == id + DeckSize

Seeds == 0..(NumSeeds - 1)

\* Math.floor(Math.random() * (i + 1)) along the random stream `seed`
RandomIndex(seed, i) == IF seed = 0 THEN i ELSE (seed * i + seed * seed) % (i + 1)

\* [shuffled[i], shuffled[j]] = [shuffled[j], shuffled[i]]
Swap(s, a, b) ==
    [k \in 1..Len(s) |-> IF k = a THEN s[b] ELSE IF k = b THEN s[a] ELSE s[k]]

\* shuffleDeck's loop for i down to 1 (0-based i); it has nothing to exchange
\* in fewer than two cards
RECURSIVE FisherYates(_, _, _)
FisherYates(s, i, seed) ==
    IF Len(s) < 2 \/ i < 1 THEN s
    ELSE FisherYates(Swap(s, i + 1, RandomIndex(seed, i) + 1), i - 1, seed)

shuffleDeck(deck, seed) == FisherYates(deck, Len(deck) - 1, seed)

Min(a, b) == IF a < b THEN a ELSE b

dealCards(deck, numCards) ==
    [dealt |-> SubSeq(deck, 1, Min(numCards, Len(deck))),
     remaining |-> SubSeq(deck, Min(numCards, Len(deck)) + 1, Len(deck))]

-----------------------------------------------------------------------------
(* Rules Engine *)

Throw == [error |-> TRUE]

IsThrow(r) == "error" \in DOMAIN r

PlayerIds == <<"p1", "p2", "p3", "p4", "p5", "p6">>

\* 0-based Array.prototype.findIndex over the roster; -1 when absent
RECURSIVE findIndexFrom(_, _, _)
findIndexFrom(players, pid, i) ==
    IF i > Len(players) THEN -1
    ELSE IF players[i].id = pid THEN i - 1
    ELSE findIndexFrom(players, pid, i + 1)

findIndex(players, pid) == findIndexFrom(players, pid, 1)

\* 1-based position of the first number card, 0 when there is none
RECURSIVE findNumberFrom(_, _)
findNumberFrom(deck, i) ==
    IF i > Len(deck) THEN 0
    ELSE IF Card(deck[i]).type = "number" THEN i
    ELSE findNumberFrom(deck, i + 1)

\* a starting card taken from the front of the deck whatever its type
firstCardIndex(deck) == 1

startingCardIndex(deck) ==
    IF findNumberFrom(deck, 1) = 0 THEN 1 ELSE findNumberFrom(deck, 1)

RemoveAt(s, i) == SubSeq(s, 1, i - 1) \o SubSeq(s, i + 1, Len(s))

startColor(card) == IF Card(card).color = "wild" THEN "red" ELSE Card(card).color

initializeGame(hostId, maxPlayers, seed) ==
    LET deck == shuffleDeck(DeckIds, seed)
        d == dealCards(deck, HandSize)
        idx == startingCardIndex(d.remaining)
        startingCard == d.remaining[idx]
    IN [status |-> "waiting",
        players |-> <<[id |-> hostId, cards |-> d.dealt, isHost |-> TRUE,
                      hasCalledUno |-> FALSE]>>,
        currentPlayerIndex |-> 0,
        direction |-> 1,
        drawPile |-> RemoveAt(d.remaining, idx),
        discardPile |-> <<startingCard>>,
        currentColor |-> startColor(startingCard),
        pendingDrawCount |-> 0,
        pendingDrawType |-> "null",
        winnerId |-> "null",
        hostId |-> hostId,
        maxPlayers |-> maxPlayers]

\* an addPlayer that seats the player with the host's hand
addPlayerWithHand(s, playerId) ==
    IF Len(s.players) >= s.maxPlayers THEN Throw
    ELSE IF s.status # "waiting" THEN Throw
    ELSE [s EXCEPT !.players =
             Append(@, [id |-> playerId, cards |-> s.players[1].cards,
                        isHost |-> FALSE, hasCalledUno |-> FALSE])]

\* addPlayer without its 'Game is full' check
addPlayerUnlimited(s, playerId) ==
    IF s.status # "waiting" THEN Throw
    ELSE [s EXCEPT !.players =
             Append(@, [id |-> playerId, cards |-> <<>>, isHost |-> FALSE,
                        hasCalledUno |-> FALSE])]

addPlayer(s, playerId) ==
    IF Len(s.players) >= s.maxPlayers THEN Throw
    ELSE IF s.status # "waiting" THEN Throw
    ELSE [s EXCEPT !.players =
             Append(@, [id |-> playerId, cards |-> <<>>, isHost |-> FALSE,
                        hasCalledUno |-> FALSE])]

\* startGame's guard without its 'Game has already started' check
canStartAnyStatus(s) == Len(s.players) >= 2

\* neither throw of startGame is taken
canStart(s) == s.status = "waiting" /\ Len(s.players) >= 2

startGame(s, seed) ==
    IF ~canStart(s) THEN Throw
    ELSE
      LET deck == shuffleDeck(DeckIds, seed)
          n == Len(s.players)
          updatedPlayers ==
              [k \in 1..n |->
                  [s.players[k] EXCEPT
                      !.cards = SubSeq(deck, Min((k - 1) * HandSize, Len(deck)) + 1,
                                       Min(k * HandSize, Len(deck))),
                      !.hasCalledUno = FALSE]]
          rest == SubSeq(deck, Min(n * HandSize, Len(deck)) + 1, Len(deck))
          idx == startingCardIndex(rest)
          startingCard == rest[idx]
      IN [s EXCEPT !.status = "playing",
                   !.players = updatedPlayers,
                   !.currentPlayerIndex = 0,
                   !.direction = 1,
                   !.drawPile = RemoveAt(rest, idx),
                   !.discardPile = <<startingCard>>,
                   !.currentColor = startColor(startingCard),
                   !.pendingDrawCount = 0,
                   !.pendingDrawType = "null"]

getTopCard(s) == s.discardPile[Len(s.discardPile)]

DrawTypes ==
    {"draw2", "draw4", "draw6", "draw10", "wild_draw2", "wild_draw4", "wild_draw_color"}

\* the drawValues table of canStackDrawCard
drawValues(type) ==
    CASE type \in {"draw2", "wild_draw2"} -> 2
      [] type \in {"draw4", "wild_draw4", "wild_draw_color"} -> 4
      [] type = "draw6" -> 6
      [] type = "draw10" -> 10
      [] OTHER -> 0

\* canStackDrawCard without the comparison of the draw values
canStackAnyDrawCard(card, pendingType) == card.type \in DrawTypes

canStackDrawCard(card, pendingType) ==
    IF card.type \notin DrawTypes THEN FALSE
    ELSE drawValues(card.type) >= drawValues(pendingType)

\* the drawCounts table of getDrawCount
getDrawCount(type) ==
    CASE type \in {"draw2", "wild_draw2"} -> 2
      [] type \in {"draw4", "wild_draw4", "wild_draw_color"} -> 4
      [] type = "draw6" -> 6
      [] type = "draw10" -> 10
      [] OTHER -> 0

isDrawCard(type) == getDrawCount(type) > 0

\* x % 0 in JavaScript
NaN == -1

\* state.players[state.currentPlayerIndex] is an element of the roster
hasCurrentPlayer(s) ==
    s.currentPlayerIndex >= 0 /\ s.currentPlayerIndex < Len(s.players)

\* a turn check that lets every player through
isTurnOfAnyone(s, playerId) == TRUE

\* currentPlayer.id === playerId
isTurnOf(s, playerId) == s.players[s.currentPlayerIndex + 1].id = playerId

\* the match of canPlayCard without its number and type cases
matchesColor(card, topCard, currentColor) ==
    card.color = "wild" \/ card.color = currentColor

\* the four matches that end canPlayCard
matches(card, topCard, currentColor) ==
    IF card.color = "wild" THEN TRUE
    ELSE IF card.color = currentColor THEN TRUE
    ELSE IF card.type = "number" /\ topCard.type = "number"
            /\ card.value = topCard.value THEN TRUE
    ELSE IF card.type = topCard.type /\ card.type # "number" THEN TRUE
    ELSE FALSE

\* FALSE also stands for the TypeError of reading the id of no player: the
\* callers of canPlayCard fail either way
canPlayCard(s, c, playerId) ==
    IF Len(s.discardPile) = 0 THEN TRUE
    ELSE IF ~hasCurrentPlayer(s) THEN FALSE
    ELSE
      LET topCard == Card(getTopCard(s))
          card == Card(c)
      IN IF ~isTurnOf(s, playerId) THEN FALSE
         ELSE IF s.pendingDrawCount > 0 /\ s.pendingDrawType # "null"
              THEN canStackDrawCard(card, s.pendingDrawType)
         ELSE matches(card, topCard, s.currentColor)

RECURSIVE stepIndex(_, _, _, _)
stepIndex(next, direction, numPlayers, skip) ==
    IF skip = 0 THEN next
    ELSE IF numPlayers = 0 THEN NaN
    ELSE stepIndex((next + direction + numPlayers) % numPlayers,
                   direction, numPlayers, skip - 1)

getNextPlayerIndex(s, skip) ==
    stepIndex(s.currentPlayerIndex, s.direction, Len(s.players), skip)

\* a reshuffle that leaves the recycled cards in the discard pile as well
reshuffleCopying(discardPile, seed) ==
    [drawPile |->
         shuffleDeck([i \in 1..(Len(discardPile) - 1) |-> FreshId(discardPile[i])], seed),
     discardPile |-> discardPile]

\* a reshuffle that keeps the bottom card of the discard pile in place of the
\* top card
reshuffleKeepingBottom(discardPile, seed) ==
    IF Len(discardPile) = 0
    THEN [drawPile |-> <<>>, discardPile |-> <<>>]
    ELSE [drawPile |->
              shuffleDeck([i \in 1..(Len(discardPile) - 1) |-> FreshId(discardPile[i + 1])],
                          seed),
          discardPile |-> <<discardPile[1]>>]

\* the reshuffle of drawCards: the discard pile below its top card, under
\* fresh ids, shuffled into the draw pile
reshuffle(discardPile, seed) ==
    IF Len(discardPile) = 0
    THEN [drawPile |-> <<>>, discardPile |-> <<>>]
    ELSE [drawPile |->
              shuffleDeck([i \in 1..(Len(discardPile) - 1) |-> FreshId(discardPile[i])],
                          seed),
          discardPile |-> <<discardPile[Len(discardPile)]>>]

\* the for loop of drawCards
RECURSIVE drawLoop(_, _, _, _, _)
drawLoop(drawPile, discardPile, drawnCards, count, seed) ==
    IF count = 0
    THEN [drawPile |-> drawPile, discardPile |-> discardPile, drawnCards |-> drawnCards]
    ELSE
      LET r == IF Len(drawPile) = 0
               THEN reshuffle(discardPile, seed)
               ELSE [drawPile |-> drawPile, discardPile |-> discardPile]
      IN IF Len(r.drawPile) > 0
         THEN drawLoop(SubSeq(r.drawPile, 1, Len(r.drawPile) - 1), r.discardPile,
                       Append(drawnCards, r.drawPile[Len(r.drawPile)]), count - 1, seed)
         ELSE drawLoop(r.drawPile, r.discardPile, drawnCards, count - 1, seed)

SelectPlayers(players, playerId) == SelectSeq(players, LAMBDA p : p.id # playerId)

eliminatePlayer(s, playerId, seed) ==
    LET playerIndex == findIndex(s.players, playerId)
    IN IF playerIndex = -1 THEN s
       ELSE
         LET eliminatedPlayer == s.players[playerIndex + 1]
             remainingPlayers == SelectPlayers(s.players, playerId)
             newDrawPile == shuffleDeck(s.drawPile \o eliminatedPlayer.cards, seed)
             newCurrentIndex ==
                 IF playerIndex < s.currentPlayerIndex THEN s.currentPlayerIndex - 1
                 ELSE IF playerIndex = s.currentPlayerIndex
                      THEN IF Len(remainingPlayers) = 0 THEN NaN
                           ELSE s.currentPlayerIndex % Len(remainingPlayers)
                 ELSE s.currentPlayerIndex
         IN IF Len(remainingPlayers) = 1
            THEN [s EXCEPT !.status = "finished",
                           !.players = remainingPlayers,
                           !.winnerId = remainingPlayers[1].id,
                           !.drawPile = newDrawPile,
                           !.currentPlayerIndex = 0]
            ELSE [s EXCEPT !.players = remainingPlayers,
                           !.drawPile = newDrawPile,
                           !.currentPlayerIndex = newCurrentIndex]

\* the elimination test with > in place of >=
overLimit(cards) == Len(cards) > EliminationLimit

\* updatedPlayer.cards.length >= 25
atLimit(cards) == Len(cards) >= EliminationLimit

\* drawCards without the reset of hasCalledUno
drawCardsKeepingFlag(s, playerId, count, seed) ==
    LET playerIndex == findIndex(s.players, playerId)
    IN IF playerIndex = -1 THEN Throw
       ELSE
         LET d == drawLoop(s.drawPile, s.discardPile, <<>>, count, seed)
             newPlayers ==
                 [s.players EXCEPT ![playerIndex + 1] =
                     [@ EXCEPT !.cards = @ \o d.drawnCards]]
             drawn == [s EXCEPT !.players = newPlayers,
                                !.drawPile = d.drawPile,
                                !.discardPile = d.discardPile]
         IN IF atLimit(newPlayers[playerIndex + 1].cards)
            THEN eliminatePlayer(drawn, playerId, seed)
            ELSE drawn

drawCards(s, playerId, count, seed) ==
    LET playerIndex == findIndex(s.players, playerId)
    IN IF playerIndex = -1 THEN Throw
       ELSE
         LET d == drawLoop(s.drawPile, s.discardPile, <<>>, count, seed)
             newPlayers ==
                 [s.players EXCEPT ![playerIndex + 1] =
                     [@ EXCEPT !.cards = @ \o d.drawnCards, !.hasCalledUno = FALSE]]
             drawn == [s EXCEPT !.players = newPlayers,
                                !.drawPile = d.drawPile,
                                !.discardPile = d.discardPile]
         IN IF atLimit(newPlayers[playerIndex + 1].cards)
            THEN eliminatePlayer(drawn, playerId, seed)
            ELSE drawn

RemoveCards(cards, ids) == SelectSeq(cards, LAMBDA c : c \notin ids)

\* the colour update taking the card's colour when no colour was selected
cardColorOrSelected(currentColor, card, selectedColor) ==
    IF selectedColor # "none" THEN selectedColor ELSE card.color

\* 'Update current color' of handleCardEffect
effectColor(currentColor, card, selectedColor) ==
    IF card.color = "wild" /\ selectedColor # "none" THEN selectedColor
    ELSE IF card.color # "wild" THEN card.color
    ELSE currentColor

\* a pending count that forgets the draw cards played before
lastPending(pendingDrawCount, n) == n

\* the pending count of the draw cases of handleCardEffect
addPending(pendingDrawCount, n) == pendingDrawCount + n

\* a skip that passes the turn to the next player
skipNobody(s) ==
    [s EXCEPT !.currentPlayerIndex = getNextPlayerIndex(s, 1)]

\* case 'skip' of handleCardEffect
skipEffect(s) ==
    [s EXCEPT !.currentPlayerIndex = getNextPlayerIndex(s, 2)]

\* a reverse that turns the direction whatever the number of players
reverseAlways(s) ==
    LET turned == [s EXCEPT !.direction = s.direction * (-1)]
    IN [turned EXCEPT !.currentPlayerIndex = getNextPlayerIndex(turned, 1)]

\* case 'reverse' of handleCardEffect
reverseEffect(s) ==
    IF Len(s.players) = 2
    THEN [s EXCEPT !.currentPlayerIndex = getNextPlayerIndex(s, 2)]
    ELSE LET turned == [s EXCEPT !.direction = s.direction * (-1)]
         IN [turned EXCEPT !.currentPlayerIndex = getNextPlayerIndex(turned, 1)]

\* skip_everyone and reverse_everyone passing the turn as other cards do
everyoneAdvances(s, type) ==
    LET turned == IF type = "skip_everyone" THEN s
                  ELSE [s EXCEPT !.direction = s.direction * (-1)]
    IN [turned EXCEPT !.currentPlayerIndex = getNextPlayerIndex(turned, 1)]

\* cases 'skip_everyone' and 'reverse_everyone' of handleCardEffect
everyoneEffect(s, type) ==
    IF type = "skip_everyone" THEN s
    ELSE [s EXCEPT !.direction = s.direction * (-1)]

handleCardEffect(s, c, playerId, selectedColor, randomColor) ==
    LET card == Card(c)
        colored ==
            [s EXCEPT !.currentColor = effectColor(@, card, selectedColor)]
        pending(n) ==
            [colored EXCEPT !.pendingDrawCount = addPending(s.pendingDrawCount, n),
                            !.pendingDrawType = card.type,
                            !.currentPlayerIndex = getNextPlayerIndex(colored, 1)]
    IN CASE card.type = "skip" -> skipEffect(colored)
         [] card.type = "reverse" -> reverseEffect(colored)
         [] card.type \in {"skip_everyone", "reverse_everyone"} ->
              everyoneEffect(colored, card.type)
         [] card.type \in {"draw2", "wild_draw2"} -> pending(2)
         [] card.type \in {"draw4", "wild_draw4"} -> pending(4)
         [] card.type = "draw6" -> pending(6)
         [] card.type = "draw10" -> pending(10)
         [] card.type = "wild_draw_color" -> pending(4)
         [] card.type = "color_roulette" ->
              LET spun == [colored EXCEPT !.currentColor = randomColor]
              IN [spun EXCEPT !.currentPlayerIndex = getNextPlayerIndex(spun, 1)]
         [] OTHER ->
              [colored EXCEPT !.currentPlayerIndex = getNextPlayerIndex(colored, 1)]

\* a winner check that looks at the hand before the play
checkWinnerBefore(s, newCards, playerId) ==
    IF Len(newCards) = 1
    THEN [s EXCEPT !.status = "finished", !.winnerId = playerId]
    ELSE s

\* the winner check that ends playCard, playMultipleCards and playDiscardAll
checkWinner(s, newCards, playerId) ==
    IF Len(newCards) = 0
    THEN [s EXCEPT !.status = "finished", !.winnerId = playerId]
    ELSE s

playCard(s, playerId, c, selectedColor, randomColor) ==
    IF ~canPlayCard(s, c, playerId) THEN Throw
    ELSE
      LET playerIndex == findIndex(s.players, playerId)
          newCards == RemoveCards(s.players[playerIndex + 1].cards, {c})
          moved == [s EXCEPT !.discardPile = Append(@, c),
                             !.players[playerIndex + 1].cards = newCards]
      IN checkWinner(handleCardEffect(moved, c, playerId, selectedColor, randomColor),
                     newCards, playerId)

SeqToSet(q) == {q[i] : i \in 1..Len(q)}

\* a playDiscardAll without its 'Cards must match current color' check
playDiscardAllAnyColor(s, playerId, cards) ==
    IF Len(cards) = 0 THEN Throw
    ELSE IF findIndex(s.players, playerId) = -1 THEN Throw
    ELSE
      LET playerIndex == findIndex(s.players, playerId)
          color == Card(cards[1]).color
      IN IF \E i \in 1..Len(cards) : Card(cards[i]).color # color THEN Throw
         ELSE
           LET newCards == RemoveCards(s.players[playerIndex + 1].cards, SeqToSet(cards))
               moved == [s EXCEPT !.discardPile = @ \o cards,
                                  !.players[playerIndex + 1].cards = newCards,
                                  !.currentPlayerIndex = getNextPlayerIndex(s, 1)]
           IN checkWinner(moved, newCards, playerId)

playDiscardAll(s, playerId, cards) ==
    IF Len(cards) = 0 THEN Throw
    ELSE IF findIndex(s.players, playerId) = -1 THEN Throw
    ELSE
      LET playerIndex == findIndex(s.players, playerId)
          color == Card(cards[1]).color
      IN IF \E i \in 1..Len(cards) : Card(cards[i]).color # color THEN Throw
         ELSE IF color # s.currentColor THEN Throw
         ELSE
           LET newCards == RemoveCards(s.players[playerIndex + 1].cards, SeqToSet(cards))
               moved == [s EXCEPT !.discardPile = @ \o cards,
                                  !.players[playerIndex + 1].cards = newCards,
                                  !.currentPlayerIndex = getNextPlayerIndex(s, 1)]
           IN checkWinner(moved, newCards, playerId)

\* processDrawPenalty clearing the count and leaving the type
processDrawPenaltyKeepingType(s, seed) ==
    IF s.pendingDrawCount = 0 THEN s
    ELSE IF ~hasCurrentPlayer(s) THEN Throw
    ELSE
      LET currentPlayer == s.players[s.currentPlayerIndex + 1]
          drawn == drawCards(s, currentPlayer.id, s.pendingDrawCount, seed)
      IN [drawn EXCEPT !.pendingDrawCount = 0,
                       !.currentPlayerIndex = getNextPlayerIndex(drawn, 1)]

processDrawPenalty(s, seed) ==
    IF s.pendingDrawCount = 0 THEN s
    ELSE IF ~hasCurrentPlayer(s) THEN Throw
    ELSE
      LET currentPlayer == s.players[s.currentPlayerIndex + 1]
          drawn == drawCards(s, currentPlayer.id, s.pendingDrawCount, seed)
      IN [drawn EXCEPT !.pendingDrawCount = 0,
                       !.pendingDrawType = "null",
                       !.currentPlayerIndex = getNextPlayerIndex(drawn, 1)]

\* a callUno that takes a call from any hand
callUnoAnyHand(s, playerId) ==
    LET playerIndex == findIndex(s.players, playerId)
    IN IF playerIndex = -1 THEN Throw
       ELSE [s EXCEPT !.players[playerIndex + 1].hasCalledUno = TRUE]

\* a callUno that takes the call one card early, from a hand of two
callUnoEarly(s, playerId) ==
    LET playerIndex == findIndex(s.players, playerId)
    IN IF playerIndex = -1 THEN Throw
       ELSE IF Len(s.players[playerIndex + 1].cards) \notin {1, 2} THEN Throw
       ELSE [s EXCEPT !.players[playerIndex + 1].hasCalledUno = TRUE]

callUno(s, playerId) ==
    LET playerIndex == findIndex(s.players, playerId)
    IN IF playerIndex = -1 THEN Throw
       ELSE IF Len(s.players[playerIndex + 1].cards) # 1 THEN Throw
       ELSE [s EXCEPT !.players[playerIndex + 1].hasCalledUno = TRUE]

\* a challengeUno that does not look at the target's declaration
challengeUnoDeclared(s, challengerId, targetId, seed) ==
    LET targetIndex == findIndex(s.players, targetId)
    IN IF targetIndex = -1 THEN Throw
       ELSE IF Len(s.players[targetIndex + 1].cards) # 1 THEN Throw
       ELSE drawCards(s, targetId, ChallengePenalty, seed)

challengeUno(s, challengerId, targetId, seed) ==
    LET targetIndex == findIndex(s.players, targetId)
    IN IF targetIndex = -1 THEN Throw
       ELSE
         LET target == s.players[targetIndex + 1]
         IN IF Len(target.cards) # 1 \/ target.hasCalledUno THEN Throw
            ELSE drawCards(s, targetId, ChallengePenalty, seed)

canPlayMultipleCards(s, cards, playerId) ==
    IF Len(cards) = 0 THEN FALSE
    ELSE IF Len(cards) = 1 THEN canPlayCard(s, cards[1], playerId)
    ELSE IF Card(cards[1]).type # "number" THEN FALSE
    ELSE IF \E i \in 1..Len(cards) :
                ~(Card(cards[i]).type = "number"
                  /\ Card(cards[i]).value = Card(cards[1]).value) THEN FALSE
    ELSE \E i \in 1..Len(cards) : canPlayCard(s, cards[i], playerId)

\* the cards in the order they were handed over
handedOrder(s, cards, playerId) == cards

\* [...cards].sort(...): a stable sort that puts the playable cards last
sortedCards(s, cards, playerId) ==
    SelectSeq(cards, LAMBDA c : ~canPlayCard(s, c, playerId))
    \o SelectSeq(cards, LAMBDA c : canPlayCard(s, c, playerId))

playMultipleCards(s, playerId, cards) ==
    IF ~canPlayMultipleCards(s, cards, playerId) THEN Throw
    ELSE
      LET sorted == sortedCards(s, cards, playerId)
          playerIndex == findIndex(s.players, playerId)
          newCards == RemoveCards(s.players[playerIndex + 1].cards, SeqToSet(cards))
          lastCard == Card(sorted[Len(sorted)])
          moved == [s EXCEPT !.discardPile = @ \o sorted,
                             !.players[playerIndex + 1].cards = newCards,
                             !.currentColor =
                                 IF lastCard.color = "wild" THEN @ ELSE lastCard.color,
                             !.currentPlayerIndex = getNextPlayerIndex(s, 1)]
      IN checkWinner(moved, newCards, playerId)

-----------------------------------------------------------------------------
(* The callers' inputs *)

Roster == {state.players[i].id : i \in 1..Len(state.players)}

HandOf(s, playerId) == s.players[findIndex(s.players, playerId) + 1].cards

\* the colour picker offers the four colours for a wild card (GameBoard),
\* selectBestColor answers one of them; other cards are played without one
ColorChoices(c) == IF Card(c).color = "wild" THEN BaseColors \cup {"none"} ELSE {"none"}

\* COLORS[Math.floor(Math.random() * COLORS.length)], read by color_roulette only
RouletteChoices(c) == IF Card(c).type = "color_roulette" THEN BaseColors ELSE {"red"}

\* the counts drawCards is called with: one card, or a whole penalty
DrawCounts == {1, MaxDrawCount}

\* the cards a player picks from: of several cards of the hand that are alike
\* (same type, colour and value) the first
Pick(hand) ==
    {hand[i] : i \in {k \in 1..Len(hand) :
                        \A j \in 1..(k - 1) : Alike[hand[j]] # Alike[hand[k]]}}

CardsOfColor(hand, color) == SelectSeq(hand, LAMBDA c : Card(c).color = color)

CardsOfValue(hand, v) ==
    SelectSeq(hand, LAMBDA c : Card(c).type = "number" /\ Card(c).value = v)

Front(q) == SubSeq(q, 1, Len(q) - 1)

ActionCards(q) == SelectSeq(q, LAMBDA c : Card(c).type # "number")

\* card sets handed to playDiscardAll: the hand's cards of one colour (the
\* matchingCards of the AI's decision), those but the last, or the action
\* cards among them
DiscardChoices(hand) ==
    {q \in UNION {{CardsOfColor(hand, col),
                   Front(CardsOfColor(hand, col)),
                   ActionCards(CardsOfColor(hand, col))} :
                      col \in BaseColors \cup {"wild"}} :
        q # <<>>}

\* card lists handed to playMultipleCards: the selection of GameBoard, number
\* cards of one value in the order they were clicked (two of them in either
\* order, or the whole group)
MultiChoices(hand) ==
    {<<hand[p[1]], hand[p[2]]>> :
        p \in {x \in (1..Len(hand)) \X (1..Len(hand)) :
                  /\ x[1] # x[2]
                  /\ Card(hand[x[1]]).type = "number"
                  /\ Card(hand[x[2]]).type = "number"
                  /\ Card(hand[x[1]]).value = Card(hand[x[2]]).value}}
    \cup {q \in {CardsOfValue(hand, v) : v \in 0..MaxNumber} : Len(q) > 2}

Op(name, playerId, cards, count) ==
    [op |-> name, player |-> playerId, cards |-> cards, count |-> count]

-----------------------------------------------------------------------------
(* The handlers of the hook: the state they hold after an engine call *)

getPlayableCards(s, playerId) ==
    IF findIndex(s.players, playerId) = -1 THEN <<>>
    ELSE SelectSeq(HandOf(s, playerId), LAMBDA c : canPlayCard(s, c, playerId))

\* try { setGameState(call) } catch { setError }: the state held afterwards
held(gameState, result) == IF IsThrow(result) THEN gameState ELSE result

\* a draw loop that goes on to maxDraws whatever the player holds
RECURSIVE drawToTheLimit(_, _, _, _)
drawToTheLimit(newState, playerId, drawCount, seed) ==
    IF drawCount >= MaxDraws THEN newState
    ELSE LET drawn == drawCards(newState, playerId, 1, seed)
         IN IF IsThrow(drawn) THEN Throw
            ELSE drawToTheLimit(drawn, playerId, drawCount + 1, seed)

\* drawCount when the loop of handleDrawCard is left, by its condition or by
\* a drawCards that throws
RECURSIVE drawCountAfter(_, _, _, _)
drawCountAfter(newState, playerId, drawCount, seed) ==
    IF drawCount >= MaxDraws THEN drawCount
    ELSE LET drawn == drawCards(newState, playerId, 1, seed)
         IN IF IsThrow(drawn) THEN drawCount
            ELSE IF Len(getPlayableCards(drawn, playerId)) > 0 THEN drawCount + 1
            ELSE drawCountAfter(drawn, playerId, drawCount + 1, seed)

\* the draw loop of handleDrawCard from its drawCount-th turn on: Throw when
\* a drawCards throws
RECURSIVE drawUntilPlayable(_, _, _, _)
drawUntilPlayable(newState, playerId, drawCount, seed) ==
    IF drawCount >= MaxDraws THEN newState
    ELSE LET drawn == drawCards(newState, playerId, 1, seed)
         IN IF IsThrow(drawn) THEN Throw
            ELSE IF Len(getPlayableCards(drawn, playerId)) > 0 THEN drawn
            ELSE drawUntilPlayable(drawn, playerId, drawCount + 1, seed)

\* a draw loop that sets the game state after every draw
RECURSIVE drawAndSet(_, _, _, _)
drawAndSet(newState, playerId, drawCount, seed) ==
    IF drawCount >= MaxDraws THEN newState
    ELSE LET drawn == drawCards(newState, playerId, 1, seed)
         IN IF IsThrow(drawn) THEN newState
            ELSE IF Len(getPlayableCards(drawn, playerId)) > 0 THEN drawn
            ELSE drawAndSet(drawn, playerId, drawCount + 1, seed)

\* a handleDrawCard whose loop sets the game state after every draw
handleDrawCardSetting(gameState, activePlayerId, seed) ==
    IF gameState.pendingDrawCount > 0
    THEN held(gameState, processDrawPenalty(gameState, seed))
    ELSE drawAndSet(gameState, activePlayerId, 0, seed)

\* the state the hook holds after handleDrawCard
handleDrawCard(gameState, activePlayerId, seed) ==
    IF gameState.pendingDrawCount > 0
    THEN held(gameState, processDrawPenalty(gameState, seed))
    ELSE held(gameState, drawUntilPlayable(gameState, activePlayerId, 0, seed))

-----------------------------------------------------------------------------
(* The automated player: the decision of makeAIDecision *)

Difficulties == {"easy", "medium", "hard"}

Randoms == 0..(NumRandoms - 1)

\* Math.floor(Math.random() * n)
RandomPick(random, n) == (random * n) \div NumRandoms

\* the decisions: card 0 and cards <<>> stand for an absent field,
\* selectedColor "none" for undefined
Decision(action, card, cards, selectedColor) ==
    [action |-> action, card |-> card, cards |-> cards,
     selectedColor |-> selectedColor]

getNextPlayer(s) ==
    s.players[((s.currentPlayerIndex + s.direction + Len(s.players))
                  % Len(s.players)) + 1]

\* isDrawCard of the automated player
isDrawCardAI(type) == type \in DrawTypes

\* getDrawCount of the automated player
getDrawCountAI(type) ==
    CASE type \in {"draw2", "wild_draw2"} -> 2
      [] type \in {"draw4", "wild_draw4", "wild_draw_color"} -> 4
      [] type = "draw6" -> 6
      [] type = "draw10" -> 10
      [] OTHER -> 0

typePriority(type) ==
    CASE type = "draw10" -> 100
      [] type = "draw6" -> 90
      [] type = "wild_draw4" -> 85
      [] type = "draw4" -> 80
      [] type = "wild_draw_color" -> 75
      [] type = "wild_draw2" -> 70
      [] type = "draw2" -> 65
      [] type = "skip_everyone" -> 60
      [] type = "skip" -> 55
      [] type = "reverse_everyone" -> 50
      [] type = "reverse" -> 45
      [] type = "discard_all" -> 40
      [] type = "color_roulette" -> 35
      [] type = "number" -> 30
      [] type = "wild" -> 20
      [] OTHER -> 0

getCardPriority(c) ==
    typePriority(Card(c).type)
      + (IF Card(c).type = "number" THEN Card(c).value ELSE 0)

\* cards.sort((a, b) => f(b) - f(a))[0], with keys[i] = f(cards[i]): the first
\* card of the highest key
firstHighest(cards, keys) ==
    cards[CHOOSE i \in 1..Len(cards) :
            /\ \A j \in 1..Len(cards) : keys[j] <= keys[i]
            /\ \A j \in 1..(i - 1) : keys[j] < keys[i]]

countColors(cards, color) ==
    Cardinality({i \in 1..Len(cards) : Card(cards[i]).color = color})

\* the colour of the most cards, the first of them in the order of COLORS
mostHeld(cards) ==
    COLORS[CHOOSE i \in 1..Len(COLORS) :
             /\ \A j \in 1..Len(COLORS) :
                  countColors(cards, COLORS[j]) <= countColors(cards, COLORS[i])
             /\ \A j \in 1..(i - 1) :
                  countColors(cards, COLORS[j]) < countColors(cards, COLORS[i])]

\* a selectBestColor that answers the colour of the first card of the hand
selectFirstColor(cards, random) == Card(cards[1]).color

selectBestColor(cards, random) ==
    IF \A i \in 1..Len(COLORS) : countColors(cards, COLORS[i]) = 0
    THEN COLORS[RandomPick(random, Len(COLORS)) + 1]
    ELSE mostHeld(cards)

selectMediumDifficulty(playableCards, s) ==
    LET nextPlayer == getNextPlayer(s)
        shouldBeAggressive == Len(nextPlayer.cards) <= 3
        drawCardsAI == SelectSeq(playableCards, LAMBDA c : isDrawCardAI(Card(c).type))
        skipReverse ==
            SelectSeq(playableCards,
                      LAMBDA c : Card(c).type \in {"skip", "reverse", "skip_everyone",
                                                   "reverse_everyone"})
        nonWildCards == SelectSeq(playableCards, LAMBDA c : Card(c).color # "wild")
        byDrawCount(q) == [i \in 1..Len(q) |-> getDrawCountAI(Card(q[i]).type)]
        byPriority(q) == [i \in 1..Len(q) |-> getCardPriority(q[i])]
    IN IF shouldBeAggressive /\ Len(drawCardsAI) > 0
       THEN firstHighest(drawCardsAI, byDrawCount(drawCardsAI))
       ELSE IF shouldBeAggressive /\ Len(skipReverse) > 0 THEN skipReverse[1]
       ELSE IF Len(nonWildCards) > 0 THEN firstHighest(nonWildCards, byPriority(nonWildCards))
       ELSE playableCards[1]

selectHardDifficulty(playableCards, s, player) ==
    LET nextPlayer == getNextPlayer(s)
        pressing == Len(nextPlayer.cards) <= 2
        drawCardsAI == SelectSeq(playableCards, LAMBDA c : isDrawCardAI(Card(c).type))
        skips == SelectSeq(playableCards,
                           LAMBDA c : Card(c).type \in {"skip", "skip_everyone"})
        dominantColor == mostHeld(player.cards)
        dominantColorCards ==
            SelectSeq(playableCards, LAMBDA c : Card(c).color = dominantColor)
        nonWildCards == SelectSeq(playableCards, LAMBDA c : Card(c).color # "wild")
        regularWilds == SelectSeq(playableCards, LAMBDA c : Card(c).type = "wild")
        byDrawCount(q) == [i \in 1..Len(q) |-> getDrawCountAI(Card(q[i]).type)]
        byPriority(q) == [i \in 1..Len(q) |-> getCardPriority(q[i])]
    IN IF pressing /\ Len(drawCardsAI) > 0
       THEN firstHighest(drawCardsAI, byDrawCount(drawCardsAI))
       ELSE IF pressing /\ Len(skips) > 0 THEN skips[1]
       ELSE IF Len(dominantColorCards) > 0
       THEN firstHighest(dominantColorCards, byPriority(dominantColorCards))
       ELSE IF Len(nonWildCards) > 0 THEN firstHighest(nonWildCards, byPriority(nonWildCards))
       ELSE IF Len(regularWilds) > 0 THEN regularWilds[1]
       ELSE playableCards[1]

selectCardToPlay(s, player, playableCards, difficulty, random) ==
    LET discardAllCards ==
            SelectSeq(playableCards, LAMBDA c : Card(c).type = "discard_all")
        matchingCards ==
            SelectSeq(player.cards, LAMBDA c : Card(c).color = s.currentColor)
        selectedCard ==
            CASE difficulty = "easy" ->
                   playableCards[RandomPick(random, Len(playableCards)) + 1]
              [] difficulty = "medium" -> selectMediumDifficulty(playableCards, s)
              [] difficulty = "hard" -> selectHardDifficulty(playableCards, s, player)
              [] OTHER -> playableCards[1]
    IN IF Len(discardAllCards) > 0 /\ difficulty # "easy" /\ Len(matchingCards) >= 3
       THEN Decision("play", discardAllCards[1], matchingCards, s.currentColor)
       ELSE Decision("play", selectedCard, <<>>,
                     IF Card(selectedCard).color = "wild"
                     THEN selectBestColor(player.cards, random) ELSE "none")

makeAIDecision(s, playerId, difficulty, random) ==
    IF findIndex(s.players, playerId) = -1 THEN Decision("draw", 0, <<>>, "none")
    ELSE
      LET player == s.players[findIndex(s.players, playerId) + 1]
          playableCards == getPlayableCards(s, playerId)
      IN IF Len(playableCards) = 0 THEN Decision("draw", 0, <<>>, "none")
         ELSE IF Len(player.cards) = 2 /\ Len(playableCards) > 0
         THEN [selectCardToPlay(s, player, playableCards, difficulty, random)
                 EXCEPT !.action = "call_uno"]
         ELSE selectCardToPlay(s, player, playableCards, difficulty, random)

\* the UNO button of PlayerHand is shown:
\* cards.length === 2 && isMyTurn && !hasCalledUno
unoButton(s, playerId) ==
    /\ findIndex(s.players, playerId) # -1
    /\ Len(HandOf(s, playerId)) = 2
    /\ hasCurrentPlayer(s)
    /\ s.players[s.currentPlayerIndex + 1].id = playerId
    /\ ~s.players[findIndex(s.players, playerId) + 1].hasCalledUno

\* the state the hook holds after handleCallUno
handleCallUno(gameState, activePlayerId) ==
    held(gameState, callUno(gameState, activePlayerId))

-----------------------------------------------------------------------------
(* The hook's AI turn: the timeout callback of the effect on gameState *)

\* currentPlayer.isAI in a single player game: every seat but the host's
isAI(s, playerId) == playerId # s.hostId

\* the effect schedules the callback: a single player game that is being
\* played, with an AI seat to move
aiScheduled(s) ==
    /\ s.status = "playing"
    /\ hasCurrentPlayer(s)
    /\ isAI(s, s.players[s.currentPlayerIndex + 1].id)

\* if (gameState.pendingDrawCount > 0): stack with the decision's card, or
\* take the penalty
aiPending(gameState, id, decision, randomColor, seed) ==
    IF decision.action = "play" /\ decision.card # 0
    THEN playCard(gameState, id, decision.card, decision.selectedColor, randomColor)
    ELSE processDrawPenalty(gameState, seed)

\* decision.action === 'draw': draw until a card can be played, decide again
\* and play the card of that decision
aiDraw(gameState, id, difficulty, random, randomColor, seed) ==
    LET newState == drawUntilPlayable(gameState, id, 0, seed)
    IN IF IsThrow(newState) THEN Throw
       ELSE IF Len(getPlayableCards(newState, id)) > 0
       THEN LET newDecision == makeAIDecision(newState, id, difficulty, random)
            IN IF newDecision.card # 0
               THEN playCard(newState, id, newDecision.card,
                             newDecision.selectedColor, randomColor)
               ELSE newState
       ELSE newState

\* else if (decision.card): callUno for 'call_uno', then playDiscardAll or
\* playCard
aiPlay(gameState, id, decision, randomColor) ==
    LET newState == IF decision.action = "call_uno"
                    THEN callUno(gameState, id) ELSE gameState
    IN IF IsThrow(newState) THEN Throw
       ELSE IF Card(decision.card).type = "discard_all" /\ decision.cards # <<>>
       THEN playDiscardAll(newState, id, decision.cards)
       ELSE playCard(newState, id, decision.card, decision.selectedColor, randomColor)

\* the body of the try block: the state handed to setGameState, or Throw when
\* an engine call threw and the catch block logged it
aiAction(gameState, difficulty, random, randomColor, seed) ==
    LET id == gameState.players[gameState.currentPlayerIndex + 1].id
        decision == makeAIDecision(gameState, id, difficulty, random)
    IN IF gameState.pendingDrawCount > 0
       THEN aiPending(gameState, id, decision, randomColor, seed)
       ELSE IF decision.action = "draw"
       THEN aiDraw(gameState, id, difficulty, random, randomColor, seed)
       ELSE IF decision.card # 0
       THEN aiPlay(gameState, id, decision, randomColor)
       ELSE gameState

-----------------------------------------------------------------------------
(* The state machine *)

\* a game played on one hook (single player): no participant of a network
NoClients == <<>>

Init ==
    \E seed \in Seeds :
        /\ state = initializeGame(PlayerIds[1], MaxSeats, seed)
        /\ last = Op("initializeGame", PlayerIds[1], <<>>, 0)
        /\ steps = 0
        /\ clients = NoClients

\* the lobby: a participant joins, the host starts
AddPlayer ==
    /\ Len(state.players) < Len(PlayerIds)
    /\ LET playerId == PlayerIds[Len(state.players) + 1]
           r == addPlayer(state, playerId)
       IN /\ ~IsThrow(r)
          /\ state' = r
          /\ last' = Op("addPlayer", playerId, <<>>, 0)
    /\ UNCHANGED <<steps, clients>>

StartGame ==
    \E seed \in Seeds :
        LET r == startGame(state, seed)
        IN /\ ~IsThrow(r)
           /\ state' = r
           /\ last' = Op("startGame", state.hostId, <<>>, 0)
           /\ UNCHANGED <<steps, clients>>

\* the table: the game operations are offered once the game has started
InGame == state.status # "waiting" /\ steps < MaxSteps

PlayCard ==
    /\ InGame
    /\ \E playerId \in Roster :
         \E c \in Pick(HandOf(state, playerId)) :
           \E selectedColor \in ColorChoices(c), randomColor \in RouletteChoices(c) :
             LET r == playCard(state, playerId, c, selectedColor, randomColor)
             IN /\ ~IsThrow(r)
                /\ state' = r
                /\ last' = Op("playCard", playerId, <<c>>, 0)
    /\ steps' = steps + 1
    /\ UNCHANGED clients

PlayMultipleCards ==
    /\ InGame
    /\ \E playerId \in Roster :
         \E cards \in MultiChoices(HandOf(state, playerId)) :
             LET r == playMultipleCards(state, playerId, cards)
             IN /\ ~IsThrow(r)
                /\ state' = r
                /\ last' = Op("playMultipleCards", playerId, cards, 0)
    /\ steps' = steps + 1
    /\ UNCHANGED clients

PlayDiscardAll ==
    /\ InGame
    /\ \E playerId \in Roster :
         \E cards \in DiscardChoices(HandOf(state, playerId)) :
             LET r == playDiscardAll(state, playerId, cards)
             IN /\ ~IsThrow(r)
                /\ state' = r
                /\ last' = Op("playDiscardAll", playerId, cards, 0)
    /\ steps' = steps + 1
    /\ UNCHANGED clients

DrawCards ==
    /\ InGame
    /\ \E playerId \in Roster, count \in DrawCounts, seed \in Seeds :
             LET r == drawCards(state, playerId, count, seed)
             IN /\ ~IsThrow(r)
                /\ state' = r
                /\ last' = Op("drawCards", playerId, <<>>, count)
    /\ steps' = steps + 1
    /\ UNCHANGED clients

\* handleDrawCard and the AI turn call it while a penalty is pending
ProcessDrawPenalty ==
    /\ InGame
    /\ state.pendingDrawCount > 0
    /\ \E seed \in Seeds :
         LET r == processDrawPenalty(state, seed)
         IN /\ ~IsThrow(r)
            /\ state' = r
            /\ last' = Op("processDrawPenalty",
                          state.players[state.currentPlayerIndex + 1].id, <<>>,
                          state.pendingDrawCount)
    /\ steps' = steps + 1
    /\ UNCHANGED clients

CallUno ==
    /\ InGame
    /\ \E playerId \in Roster :
             LET r == callUno(state, playerId)
             IN /\ ~IsThrow(r)
                /\ state' = r
                /\ last' = Op("callUno", playerId, <<>>, 0)
    /\ steps' = steps + 1
    /\ UNCHANGED clients

ChallengeUno ==
    /\ InGame
    /\ \E challengerId \in Roster, targetId \in Roster :
             LET r == challengeUno(state, challengerId, targetId, 0)
             IN /\ challengerId # targetId
                /\ ~IsThrow(r)
                /\ state' = r
                /\ last' = Op("challengeUno", targetId, <<>>, ChallengePenalty)
    /\ steps' = steps + 1
    /\ UNCHANGED clients

Next ==
    \/ AddPlayer
    \/ StartGame
    \/ PlayCard
    \/ PlayMultipleCards
    \/ PlayDiscardAll
    \/ DrawCards
    \/ ProcessDrawPenalty
    \/ CallUno
    \/ ChallengeUno

Spec == Init /\ [][Next]_vars

-----------------------------------------------------------------------------
-----------------------------------------------------------------------------
(* Multiplayer: the hooks of several participants around one row of the  *)
(* games table.  state is the row's game_state, clients[p] the hook of    *)
(* participant p: its gameState and the updates sent to it and not yet    *)
(* handled.                                                               *)

\* the moves (start, play, draw) of the participants in the multiplayer model
MaxMoves == 2

\* the participants: the host and the players who join by room code
Participants == {PlayerIds[i] : i \in 1..MaxSeats}

\* useState<GameState | null>(null)
NoState == [status |-> "null"]

Client(pc, gameState, inbox) == [pc |-> pc, gameState |-> gameState, inbox |-> inbox]

\* updateGameState writes the row; the channel hands the new state to every
\* subscribed participant; the writer sets its own gameState
publish(cl, writer, newState) ==
    [p \in DOMAIN cl |->
        IF p = writer THEN [cl[p] EXCEPT !.pc = "ready", !.gameState = newState]
        ELSE IF cl[p].pc = "ready"
        THEN [cl[p] EXCEPT !.inbox = Append(@, newState)]
        ELSE cl[p]]

\* the host has created the game and subscribed; nobody else has arrived
InitNet ==
    \E seed \in Seeds :
        /\ state = initializeGame(PlayerIds[1], MaxSeats, seed)
        /\ clients = [p \in Participants |->
                        IF p = PlayerIds[1] THEN Client("ready", state, <<>>)
                        ELSE Client("idle", NoState, <<>>)]
        /\ last = Op("createGame", PlayerIds[1], <<>>, 0)
        /\ steps = 0

\* const dbGame = await getGameByRoomCode(supabase, roomCode)
GetGame ==
    \E p \in Participants :
        /\ clients[p].pc = "idle"
        /\ clients' = [clients EXCEPT ![p] = Client("joining", state, <<>>)]
        /\ UNCHANGED <<state, last, steps>>

\* the join branch after the read: rejoin, or addPlayer and updateGameState,
\* or the error for a game that has started
JoinGame ==
    \E p \in Participants :
        /\ clients[p].pc = "joining"
        /\ LET dbState == clients[p].gameState
               r == addPlayer(dbState, p)
           IN IF findIndex(dbState.players, p) # -1
              THEN /\ clients' = [clients EXCEPT ![p].pc = "ready"]
                   /\ UNCHANGED <<state, last>>
              ELSE IF dbState.status = "waiting" /\ ~IsThrow(r)
              THEN /\ state' = r
                   /\ clients' = publish(clients, p, r)
                   /\ last' = Op("addPlayer", p, <<>>, 0)
              ELSE /\ clients' = [clients EXCEPT ![p] = Client("failed", NoState, <<>>)]
                   /\ UNCHANGED <<state, last>>
        /\ UNCHANGED steps

\* .on('broadcast' | 'postgres_changes', ...): setGameState(payload)
Receive ==
    \E p \in Participants :
        /\ clients[p].pc = "ready"
        /\ clients[p].inbox # <<>>
        /\ clients' = [clients EXCEPT ![p].gameState = Head(clients[p].inbox),
                                      ![p].inbox = Tail(clients[p].inbox)]
        /\ UNCHANGED <<state, last, steps>>

HandleStartGame ==
    \E p \in Participants, seed \in Seeds :
        /\ clients[p].pc = "ready"
        /\ steps < MaxMoves
        /\ LET r == startGame(clients[p].gameState, seed)
           IN /\ ~IsThrow(r)
              /\ state' = r
              /\ clients' = publish(clients, p, r)
              /\ last' = Op("startGame", p, <<>>, 0)
        /\ steps' = steps + 1

HandlePlayCard ==
    \E p \in Participants :
        /\ clients[p].pc = "ready"
        /\ clients[p].gameState.status = "playing"
        /\ steps < MaxMoves
        /\ findIndex(clients[p].gameState.players, p) # -1
        /\ \E c \in Pick(HandOf(clients[p].gameState, p)) :
             \E selectedColor \in ColorChoices(c), randomColor \in RouletteChoices(c) :
               LET r == playCard(clients[p].gameState, p, c, selectedColor, randomColor)
               IN /\ ~IsThrow(r)
                  /\ state' = r
                  /\ clients' = publish(clients, p, r)
                  /\ last' = Op("playCard", p, <<c>>, 0)
        /\ steps' = steps + 1

HandleDrawCard ==
    \E p \in Participants, seed \in Seeds :
        /\ clients[p].pc = "ready"
        /\ clients[p].gameState.status = "playing"
        /\ steps < MaxMoves
        /\ LET gameState == clients[p].gameState
               r == IF gameState.pendingDrawCount > 0
                    THEN processDrawPenalty(gameState, seed)
                    ELSE drawUntilPlayable(gameState, p, 0, seed)
           IN /\ ~IsThrow(r)
              /\ state' = r
              /\ clients' = publish(clients, p, r)
              /\ last' = Op("handleDrawCard", p, <<>>, 0)
        /\ steps' = steps + 1

NextNet ==
    \/ GetGame
    \/ JoinGame
    \/ Receive
    \/ HandleStartGame
    \/ HandlePlayCard
    \/ HandleDrawCard

SpecNet == InitNet /\ [][NextNet]_vars

-----------------------------------------------------------------------------
(* Properties *)

RECURSIVE SumHands(_, _)
SumHands(players, i) ==
    IF i > Len(players) THEN 0
    ELSE Len(players[i].cards) + SumHands(players, i + 1)

\* the cards of the hands, the draw pile and the discard pile together
CardCount(s) == SumHands(s.players, 1) + Len(s.drawPile) + Len(s.discardPile)

\* the ids of the cards in the draw pile and in the hands
CardsOutOfDiscard(s) ==
    SeqToSet(s.drawPile)
    \cup UNION {SeqToSet(s.players[i].cards) : i \in 1..Len(s.players)}

\* a player was removed: the ids of the roster are no longer p1, p2, ... in order
SomeoneEliminated(s) == \E i \in 1..Len(s.players) : s.players[i].id # PlayerIds[i]

PlayOps == {"playCard", "playMultipleCards", "playDiscardAll"}

DrawOps == {"drawCards", "processDrawPenalty", "challengeUno"}

\* the player ids an operation can be called with
CallerIds == {PlayerIds[i] : i \in 1..MaxSeats}

ColorIsConcrete == state.currentColor \in {"red", "blue", "green", "yellow"}

\* a wild card was just played and lies on top of the discard pile
WildOnTop ==
    /\ last.op = "playCard"
    /\ Card(getTopCard(state)).color = "wild"
    /\ state.currentColor \in {"red", "blue", "green", "yellow"}

\* C3: in every reachable state pendingDrawCount is positive exactly when
\* pendingDrawType is not null.
PendingPaired == (state.pendingDrawCount > 0) <=> (state.pendingDrawType # "null")

\* a pending penalty was served: count and type are cleared together
PenaltyCleared ==
    /\ last.op = "processDrawPenalty"
    /\ last.count > 0
    /\ state.pendingDrawCount = 0
    /\ state.pendingDrawType = "null"

\* C4: after a play (playCard, playMultipleCards, playDiscardAll) that leaves
\* its player without cards, status is 'finished' and winnerId is that player.
EmptyHandWins ==
    (/\ last.op \in PlayOps
     /\ last.player \in Roster
     /\ HandOf(state, last.player) = <<>>)
    => (state.status = "finished" /\ state.winnerId = last.player)

\* a player went out by playing a draw card as the last card: the card's
\* effect is there (a draw is pending) and the game is finished
WentOut ==
    /\ last.op = "playCard"
    /\ last.player \in Roster
    /\ isDrawCard(Card(getTopCard(state)).type)
    /\ state.pendingDrawCount > 0
    /\ HandOf(state, last.player) = <<>>
    /\ state.status = "finished"
    /\ state.winnerId = last.player

\* no player of the roster holds 25 cards or more
NoFullHand ==
    \A i \in 1..Len(state.players) : Len(state.players[i].cards) < 25

\* a draw that removed its player and left one player ended the game for that one
LastPlayerWins ==
    (/\ last.op \in DrawOps
     /\ last.player \notin Roster
     /\ Len(state.players) = 1)
    => (state.status = "finished" /\ state.winnerId = state.players[1].id)

\* once the game has started no player comes (back) into the roster
NoReturn == [][state.status # "waiting" => Roster' \subseteq Roster]_vars

\* C5: a player whose hand reaches 25 cards is removed from players and is in
\* players in no later state; when the removal leaves one player, status is
\* 'finished' and winnerId is that player.
EliminationRule == [](NoFullHand /\ LastPlayerWins) /\ NoReturn

\* a draw took its player over the limit and the only other player won
EliminatedToOne ==
    /\ last.op \in DrawOps
    /\ last.player \notin Roster
    /\ Len(state.players) = 1
    /\ state.status = "finished"
    /\ state.winnerId = state.players[1].id

StatusRank(status) ==
    CASE status = "waiting" -> 0
      [] status = "playing" -> 1
      [] status = "finished" -> 2

\* C6: status only moves forward along waiting, playing, finished: no
\* operation takes it back.
StatusForward ==
    [][StatusRank(state'.status) >= StatusRank(state.status)]_vars

\* a draw in a game that a play had finished: the roster is whole, so the draw
\* did not finish the game itself, and the status stayed 'finished'
DrawAfterFinish ==
    /\ last.op = "drawCards"
    /\ state.status = "finished"
    /\ Len(state.players) >= 2

\* what a finished game is said to keep
Frozen(s) ==
    <<s.players, s.drawPile, s.discardPile, s.currentPlayerIndex,
      s.pendingDrawCount, s.pendingDrawType, s.winnerId>>

\* C7: an operation applied to a finished game fails or leaves the players,
\* their hands, the piles, the turn index, the pending draw and winnerId as
\* they were.
FinishedIsImmutable ==
    [][state.status = "finished" => Frozen(state') = Frozen(state)]_vars

\* C8: the roster never has more than maxPlayers players, and a game whose
\* status is 'playing' has at least 2: fewer are left only in a finished game.
RosterSize ==
    /\ Len(state.players) <= state.maxPlayers
    /\ state.status = "playing" => Len(state.players) >= 2

\* eliminations took the roster below two players, in a finished game
RosterCollapsed ==
    /\ Len(state.players) < 2
    /\ state.status = "finished"
    /\ SomeoneEliminated(state) \/ Len(state.players) = 0

\* playerId is not the player at currentPlayerIndex
NotCurrent(s, playerId) ==
    ~hasCurrentPlayer(s) \/ s.players[s.currentPlayerIndex + 1].id # playerId

\* C9: for a player who is not the player at currentPlayerIndex canPlayCard is
\* false for every card, and playCard fails (the state is left as it was).
OutOfTurnRefused ==
    \A playerId \in CallerIds : \A c \in 1..DeckSize :
        NotCurrent(state, playerId) =>
            /\ ~canPlayCard(state, c, playerId)
            /\ \A selectedColor \in BaseColors \cup {"none"} :
                 IsThrow(playCard(state, playerId, c, selectedColor, "red"))

\* a player out of turn holds a card of the current colour, and a wild card
OutOfTurnWithMatch ==
    /\ state.status = "playing"
    /\ \E playerId \in Roster :
         /\ NotCurrent(state, playerId)
         /\ \E c \in SeqToSet(HandOf(state, playerId)) :
              Card(c).color = state.currentColor
         /\ \E c \in SeqToSet(HandOf(state, playerId)) : Card(c).color = "wild"

\* the magnitude of a draw card, 0 for the other cards
Magnitude(type) ==
    CASE type \in {"draw2", "wild_draw2"} -> 2
      [] type \in {"draw4", "wild_draw4", "wild_draw_color"} -> 4
      [] type = "draw6" -> 6
      [] type = "draw10" -> 10
      [] OTHER -> 0

\* while a draw is pending playCard takes only draw cards of at least the
\* pending magnitude
StackingAccepts ==
    state.pendingDrawCount > 0 =>
        \A playerId \in CallerIds : \A c \in 1..DeckSize :
            \A selectedColor \in BaseColors \cup {"none"} :
                ~IsThrow(playCard(state, playerId, c, selectedColor, "red")) =>
                    /\ Magnitude(Card(c).type) > 0
                    /\ Magnitude(Card(c).type) >= Magnitude(state.pendingDrawType)

\* a play onto a pending draw keeps or raises the magnitude and raises the count
StackingGrows ==
    [][(state.pendingDrawCount > 0 /\ last'.op = "playCard") =>
          /\ Magnitude(state'.pendingDrawType) >= Magnitude(state.pendingDrawType)
          /\ state'.pendingDrawCount > state.pendingDrawCount]_vars

\* C10: while a draw is pending, playCard accepts a card only if it is a draw
\* card whose magnitude is at least that of pendingDrawType; along stacking
\* plays the magnitude never decreases and pendingDrawCount strictly increases.
PendingDrawStacking == []StackingAccepts /\ StackingGrows

\* a draw card was stacked onto a pending draw: the count exceeds what the
\* last card alone adds
Stacked ==
    /\ last.op = "playCard"
    /\ state.pendingDrawType # "null"
    /\ state.pendingDrawCount > Magnitude(state.pendingDrawType)

\* the player at currentPlayerIndex
CurrentId(s) == s.players[s.currentPlayerIndex + 1].id

\* C11: with no draw pending, a discard pile that is not empty and p the
\* current player, canPlayCard(state, card, p) is true exactly when the card
\* is wild-coloured, or of the current colour, or a number card on a number
\* card of the same value, or a card that is no number card on a card of its
\* own type.
LegalityRule ==
    (/\ hasCurrentPlayer(state)
     /\ state.pendingDrawCount = 0
     /\ Len(state.discardPile) > 0)
    => \A c \in 1..DeckSize :
         canPlayCard(state, c, CurrentId(state))
         <=> \/ Card(c).color = "wild"
             \/ Card(c).color = state.currentColor
             \/ /\ Card(c).type = "number"
                /\ Card(getTopCard(state)).type = "number"
                /\ Card(c).value = Card(getTopCard(state)).value
             \/ /\ Card(c).type # "number"
                /\ Card(c).type = Card(getTopCard(state)).type

\* the current player holds a card of another colour that is legal by its
\* type alone and a number card of another colour that is refused
LegalByTypeOrNumber ==
    /\ state.status = "playing"
    /\ state.pendingDrawCount = 0
    /\ \E c \in SeqToSet(HandOf(state, CurrentId(state))) :
         /\ Card(c).color \notin {"wild", state.currentColor}
         /\ Card(c).type # "number"
         /\ canPlayCard(state, c, CurrentId(state))
    /\ \E c \in SeqToSet(HandOf(state, CurrentId(state))) :
         /\ Card(c).color \notin {"wild", state.currentColor}
         /\ Card(c).type = "number"
         /\ ~canPlayCard(state, c, CurrentId(state))

ClearOps == {"startGame", "processDrawPenalty"}

\* one step of the pending draw: a draw card played adds its magnitude and
\* leaves its type, a clearing operation leaves none, any other operation
\* leaves the pending draw as it was
PendingStep ==
    LET played == Card(last'.cards[1]).type
    IN IF last'.op = "playCard" /\ Magnitude(played) > 0
       THEN /\ state'.pendingDrawCount
                 = state.pendingDrawCount + Magnitude(played)
            /\ state'.pendingDrawType = played
       ELSE IF last'.op \in ClearOps
       THEN /\ state'.pendingDrawCount = 0
            /\ state'.pendingDrawType = "null"
       ELSE /\ state'.pendingDrawCount = state.pendingDrawCount
            /\ state'.pendingDrawType = state.pendingDrawType

SeatAfter(s, n, d) == (s.currentPlayerIndex + n * d) % Len(s.players)

\* the cards of the deck of the given types
CardsOfType(types) == {c \in 1..DeckSize : Card(c).type \in types}

\* the results of the current player's playing card c, over the colours and
\* the roulette outcomes the call may be given
Plays(c) ==
    {playCard(state, CurrentId(state), c, selectedColor, randomColor) :
        selectedColor \in BaseColors \cup {"none"}, randomColor \in BaseColors}
    \ {Throw}

\* C14: playing a skip advances the turn by exactly 2 steps in the current
\* direction modulo the player count and leaves direction unchanged; with 4
\* players, direction +1 and index 0 the next index is 2, and with 2 players
\* the same player acts again.
SkipRule ==
    /\ stepIndex(0, 1, 4, 2) = 2
    /\ hasCurrentPlayer(state) =>
         \A c \in CardsOfType({"skip"}) : \A r \in Plays(c) :
             /\ r.direction = state.direction
             /\ r.currentPlayerIndex = SeatAfter(state, 2, state.direction)
             /\ Len(state.players) = 2 =>
                    r.currentPlayerIndex = state.currentPlayerIndex

\* a skip was played against the seating order in a game of three: the turn
\* is at the player seated after the actor
SkippedBackwards ==
    /\ last.op = "playCard"
    /\ Card(getTopCard(state)).type = "skip"
    /\ Len(state.players) = 3
    /\ state.direction = -1
    /\ state.status = "playing"
    /\ state.currentPlayerIndex
         = (findIndex(state.players, last.player) + 1) % 3

\* C15: playing a reverse with exactly 2 players never changes direction and
\* advances the turn 2 steps; with 3 or more players it flips direction and
\* advances the turn 1 step in the new direction.
ReverseRule ==
    hasCurrentPlayer(state) =>
        \A c \in CardsOfType({"reverse"}) : \A r \in Plays(c) :
            IF Len(state.players) = 2
            THEN /\ r.direction = state.direction
                 /\ r.currentPlayerIndex = SeatAfter(state, 2, state.direction)
            ELSE /\ r.direction = -state.direction
                 /\ r.currentPlayerIndex = SeatAfter(state, 1, -state.direction)

\* a reverse was played in a game of three: the direction is turned and the
\* turn is at the player seated before the actor
ReversedInThree ==
    /\ last.op = "playCard"
    /\ Card(getTopCard(state)).type = "reverse"
    /\ Len(state.players) = 3
    /\ state.direction = -1
    /\ state.status = "playing"
    /\ state.currentPlayerIndex
         = (findIndex(state.players, last.player) + 2) % 3

\* C16: playing skip_everyone or reverse_everyone never changes
\* currentPlayerIndex; skip_everyone leaves direction unchanged and
\* reverse_everyone flips it.
EveryoneRule ==
    hasCurrentPlayer(state) =>
        \A c \in CardsOfType({"skip_everyone", "reverse_everyone"}) :
            \A r \in Plays(c) :
                /\ r.currentPlayerIndex = state.currentPlayerIndex
                /\ r.direction = IF Card(c).type = "skip_everyone"
                                 THEN state.direction ELSE -state.direction

\* a reverse_everyone was played: the direction is turned and the actor is
\* still the current player
EveryoneReversed ==
    /\ last.op = "playCard"
    /\ Card(getTopCard(state)).type = "reverse_everyone"
    /\ state.direction = -1
    /\ state.status = "playing"
    /\ CurrentId(state) = last.player

\* the sequences of two cards of a hand
PairsOf(hand) == {<<hand[i], hand[j]>> : i, j \in 1..Len(hand)}

\* the card lists a failing playDiscardAll may be given: none, the whole hand
\* and the lists of one colour
DiscardInputs(hand) == {<<>>, hand} \cup DiscardChoices(hand)

\* the engine calls of the handlers that throw in state s, as the results the
\* handlers hold after them
FailedCalls(s) ==
    LET failed(r) == IF IsThrow(r) THEN {held(s, r)} ELSE {}
    IN UNION (
         {failed(addPlayer(s, playerId)) : playerId \in CallerIds}
         \cup {failed(startGame(s, seed)) : seed \in Seeds}
         \cup {failed(playCard(s, playerId, c, selectedColor, "red")) :
                 playerId \in CallerIds, c \in 1..DeckSize,
                 selectedColor \in {"none", "red"}}
         \cup {failed(callUno(s, playerId)) : playerId \in CallerIds}
         \cup {failed(challengeUno(s, PlayerIds[1], targetId, seed)) :
                 targetId \in CallerIds, seed \in Seeds}
         \cup {failed(drawCards(s, playerId, 1, seed)) :
                 playerId \in CallerIds, seed \in Seeds}
         \cup UNION {{failed(playMultipleCards(s, playerId, cards)) :
                        cards \in PairsOf(HandOf(s, playerId))} :
                     playerId \in {s.players[i].id : i \in 1..Len(s.players)}}
         \cup UNION {{failed(playDiscardAll(s, playerId, cards)) :
                        cards \in DiscardInputs(HandOf(s, playerId))} :
                     playerId \in {s.players[i].id : i \in 1..Len(s.players)}})

\* the draw loop of handleDrawCard throws for playerId after a draw that went
\* through
ThrowsAfterDraw(s, playerId, seed) ==
    /\ s.pendingDrawCount = 0
    /\ ~IsThrow(drawCards(s, playerId, 1, seed))
    /\ IsThrow(drawUntilPlayable(s, playerId, 0, seed))

AllCards(s) ==
    LET RECURSIVE hands(_)
        hands(k) == IF k > Len(s.players) THEN <<>>
                    ELSE s.players[k].cards \o hands(k + 1)
    IN hands(1) \o s.drawPile \o s.discardPile

\* the cards of s are the cards of a fresh deck, each once
FreshDeck(s) ==
    /\ Len(AllCards(s)) = DeckSize
    /\ SeqToSet(AllCards(s)) = 1..DeckSize

\* what startGame leaves: seven cards a hand out of a fresh deck, one number
\* card discarded, the first player to act in direction +1, nothing pending
Started(s, r) ==
    /\ r.status = "playing"
    /\ Len(r.players) = Len(s.players)
    /\ \A k \in 1..Len(r.players) :
         /\ r.players[k].id = s.players[k].id
         /\ Len(r.players[k].cards) = 7
    /\ FreshDeck(r)
    /\ Len(r.discardPile) = 1
    /\ Card(r.discardPile[1]).type = "number"
    /\ r.currentPlayerIndex = 0
    /\ r.direction = 1
    /\ r.pendingDrawCount = 0
    /\ r.pendingDrawType = "null"

\* C18: startGame fails when status is not 'waiting' or fewer than 2 players
\* are present; on success every player holds exactly 7 cards of a fresh deck,
\* the discard pile holds exactly one card, a number card, currentPlayerIndex
\* is 0, direction +1, the pending draw cleared and status 'playing'.
StartGameContract ==
    \A seed \in Seeds :
        IF state.status # "waiting" \/ Len(state.players) < 2
        THEN IsThrow(startGame(state, seed))
        ELSE /\ ~IsThrow(startGame(state, seed))
             /\ Started(state, startGame(state, seed))

\* a game of three was just started
StartedWithThree ==
    /\ last.op = "startGame"
    /\ Len(state.players) = 3
    /\ state.status = "playing"
    /\ \A k \in 1..3 : Len(state.players[k].cards) = 7

\* C19: addPlayer fails when the roster already has maxPlayers players or the
\* status is not 'waiting'; otherwise it appends exactly one non-host player
\* with an empty hand and changes nothing else.
AddPlayerContract ==
    \A playerId \in CallerIds :
        IF Len(state.players) >= state.maxPlayers \/ state.status # "waiting"
        THEN IsThrow(addPlayer(state, playerId))
        ELSE /\ ~IsThrow(addPlayer(state, playerId))
             /\ addPlayer(state, playerId) =
                  [state EXCEPT !.players =
                      Append(@, [id |-> playerId, cards |-> <<>>,
                                 isHost |-> FALSE, hasCalledUno |-> FALSE])]

\* a second player was just seated next to the host, with no card
Joined ==
    /\ last.op = "addPlayer"
    /\ Len(state.players) = 2
    /\ state.players[2].id = last.player
    /\ ~state.players[2].isHost
    /\ state.players[1].isHost
    /\ state.players[2].cards = <<>>
    /\ state.status = "waiting"

\* C20: callUno succeeds only for a player of the roster whose hand holds
\* exactly 1 card, and then only sets that player's hasCalledUno to true (no
\* cards move, the turn is unchanged); for an unknown player or any other hand
\* size it fails.
CallUnoContract ==
    \A playerId \in CallerIds :
        IF /\ findIndex(state.players, playerId) # -1
           /\ Len(HandOf(state, playerId)) = 1
        THEN /\ ~IsThrow(callUno(state, playerId))
             /\ callUno(state, playerId) =
                  [state EXCEPT
                      !.players[findIndex(state.players, playerId) + 1]
                          .hasCalledUno = TRUE]
        ELSE IsThrow(callUno(state, playerId))

\* a player holding one card has just called UNO while the others hold more
\* than one card
UnoCalled ==
    /\ last.op = "callUno"
    /\ Len(HandOf(state, last.player)) = 1
    /\ state.players[findIndex(state.players, last.player) + 1].hasCalledUno
    /\ \E playerId \in Roster : Len(HandOf(state, playerId)) > 1

\* targetId is seated, holds one card and has not declared
Challengeable(s, targetId) ==
    /\ findIndex(s.players, targetId) # -1
    /\ Len(HandOf(s, targetId)) = 1
    /\ ~s.players[findIndex(s.players, targetId) + 1].hasCalledUno

\* the target holds its card and four more, taken from the piles, and the
\* other players hold what they held
Penalized(s, r, targetId) ==
    /\ Len(r.players) = Len(s.players)
    /\ \A k \in 1..Len(s.players) :
         IF s.players[k].id = targetId
         THEN /\ Len(r.players[k].cards) = 5
              /\ SubSeq(r.players[k].cards, 1, 1) = s.players[k].cards
         ELSE r.players[k] = s.players[k]
    /\ CardCount(r) = CardCount(s)
    /\ r.currentPlayerIndex = s.currentPlayerIndex

\* C21: challengeUno succeeds only when the target is in the roster, holds
\* exactly 1 card and has not declared; on success the target draws 4 penalty
\* cards; a challenge against a target that has declared fails, and the state
\* held is the state before it.
ChallengeContract ==
    \A challengerId \in CallerIds, targetId \in CallerIds, seed \in Seeds :
        LET r == challengeUno(state, challengerId, targetId, seed)
        IN IF Challengeable(state, targetId)
           THEN ~IsThrow(r) /\ Penalized(state, r, targetId)
           ELSE IsThrow(r) /\ held(state, r) = state

\* a player who holds one card and has declared is challenged in vain
DeclaredInTime ==
    /\ state.status = "playing"
    /\ \E targetId \in Roster :
         /\ Len(HandOf(state, targetId)) = 1
         /\ state.players[findIndex(state.players, targetId) + 1].hasCalledUno
         /\ \A challengerId \in Roster :
              IsThrow(challengeUno(state, challengerId, targetId, 0))

\* the players of state s
Seated(s) == {s.players[i].id : i \in 1..Len(s.players)}

\* the card lists playMultipleCards is asked with: every two cards of the
\* hand in either order, and the selections of three cards and more
MultiInputs(hand) == PairsOf(hand) \cup MultiChoices(hand)

\* number cards of one value
OneValue(cards) ==
    \A i \in 1..Len(cards) :
        /\ Card(cards[i]).type = "number"
        /\ Card(cards[i]).value = Card(cards[1]).value

\* the cards q lie on the discard pile of r above the discard pile of s
Discarded(s, r, q) ==
    /\ Len(r.discardPile) = Len(s.discardPile) + Len(q)
    /\ SubSeq(r.discardPile, 1, Len(s.discardPile)) = s.discardPile
    /\ \A c \in SeqToSet(q) :
         Cardinality({i \in 1..Len(q) : q[i] = c})
           = Cardinality({i \in (Len(s.discardPile) + 1)..Len(r.discardPile) :
                             r.discardPile[i] = c})

\* C22: playMultipleCards with 2 or more cards succeeds only if all cards are
\* number cards with one common value and at least one of them individually
\* satisfies canPlayCard; on success all of them are appended to the discard
\* pile with an individually playable card on top, currentColor becomes that
\* top card's color, and the turn advances exactly 1 step.
MultiPlayContract ==
    \A playerId \in Seated(state) :
      \A cards \in MultiInputs(HandOf(state, playerId)) :
        LET r == playMultipleCards(state, playerId, cards)
        IN IF /\ OneValue(cards)
              /\ \E i \in 1..Len(cards) : canPlayCard(state, cards[i], playerId)
           THEN /\ ~IsThrow(r)
                /\ Discarded(state, r, cards)
                /\ canPlayCard(state, getTopCard(r), playerId)
                /\ r.currentColor = Card(getTopCard(r)).color
                /\ r.currentPlayerIndex = SeatAfter(state, 1, state.direction)
                /\ r.direction = state.direction
           ELSE IsThrow(r)

\* two number cards of one value were played together, the one that was
\* legal by itself above one that was not
PlayedOnTop ==
    /\ last.op = "playMultipleCards"
    /\ Len(last.cards) = 2
    /\ getTopCard(state) = last.cards[1]
    /\ Card(last.cards[2]).color # state.currentColor
    /\ Card(last.cards[1]).color = state.currentColor
    /\ state.status = "playing"

\* every two cards of a hand at different places, in either order
TwoOf(hand) == {<<hand[i], hand[j]>> : i, j \in 1..Len(hand)} \ {<<c, c>> : c \in SeqToSet(hand)}

\* the cards share one colour, the current one
OneCurrentColor(s, cards) ==
    \A i \in 1..Len(cards) : Card(cards[i]).color = s.currentColor

\* C23: playDiscardAll fails with the state unchanged unless all supplied
\* cards share one color and that color equals currentColor; on success
\* exactly the supplied cards leave the player's hand and join the discard
\* pile, currentColor is unchanged, and the turn advances 1 step.
DiscardAllContract ==
    \A playerId \in Seated(state) :
      \A cards \in DiscardInputs(HandOf(state, playerId))
                     \cup TwoOf(HandOf(state, playerId)) :
        LET r == playDiscardAll(state, playerId, cards)
            k == findIndex(state.players, playerId) + 1
        IN IF Len(cards) > 0 /\ OneCurrentColor(state, cards)
           THEN /\ ~IsThrow(r)
                /\ r.discardPile = state.discardPile \o cards
                /\ r.players[k].cards
                     = SelectSeq(state.players[k].cards,
                                 LAMBDA c : c \notin SeqToSet(cards))
                /\ \A j \in 1..Len(state.players) :
                     j # k => r.players[j] = state.players[j]
                /\ CardCount(r) = CardCount(state)
                /\ r.currentColor = state.currentColor
                /\ r.direction = state.direction
                /\ r.currentPlayerIndex = SeatAfter(state, 1, state.direction)
           ELSE IsThrow(r) /\ held(state, r) = state

\* several cards of the current colour were discarded together while the
\* player held a card of another colour
DiscardedSeveral ==
    /\ last.op = "playDiscardAll"
    /\ Len(last.cards) > 1
    /\ state.status = "playing"
    /\ findIndex(state.players, last.player) # -1
    /\ \E c \in SeqToSet(HandOf(state, last.player)) :
         Card(c).color \notin {state.currentColor, "wild"}

\* the decision of the automated player d is legal for playerId in state s
LegalDecision(s, playerId, d) ==
    IF getPlayableCards(s, playerId) = <<>>
    THEN d.action = "draw"
    ELSE /\ d.action \in {"play", "call_uno"}
         /\ d.card \in SeqToSet(getPlayableCards(s, playerId))
         /\ \A randomColor \in BaseColors :
              ~IsThrow(playCard(s, playerId, d.card, d.selectedColor, randomColor))
         /\ Card(d.card).color = "wild" => d.selectedColor \in BaseColors
         /\ d.cards # <<>> => ~IsThrow(playDiscardAll(s, playerId, d.cards))

\* C24: the decision of the automated player is always legal in the state it
\* was computed from: makeAIDecision returns 'draw' exactly when the player
\* has no card satisfying canPlayCard; otherwise the returned card is in
\* getPlayableCards, so playCard with it does not fail, a wild card comes
\* with a selectedColor among the four base colors, and a returned discard-all
\* card set satisfies playDiscardAll's legality check.
AIDecisionLegal ==
    \A playerId \in CallerIds, difficulty \in Difficulties, random \in Randoms :
        LegalDecision(state, playerId,
                      makeAIDecision(state, playerId, difficulty, random))

\* the automated player is to move: at one difficulty it decides for a
\* discard-all of the cards of the current colour, at another for a wild card
\* with a colour
DecidesBothWays ==
    /\ state.status = "playing"
    /\ hasCurrentPlayer(state)
    /\ \E difficulty \in Difficulties, random \in Randoms :
         makeAIDecision(state, CurrentId(state), difficulty, random).cards # <<>>
    /\ \E difficulty \in Difficulties, random \in Randoms :
         LET d == makeAIDecision(state, CurrentId(state), difficulty, random)
         IN /\ d.action # "draw"
            /\ Card(d.card).color = "wild"
            /\ d.selectedColor \in BaseColors

\* the cards the decision d leaves in a hand of n cards
LeftAfter(n, d) == IF d.cards # <<>> THEN n - Len(d.cards) ELSE n - 1

\* C25: the decision of the automated player carries the
\* declaration (action 'call_uno') whenever the chosen play will leave exactly
\* one card in the hand, also when the play is a discard-all of several
\* cards, and only then.
DeclaresOnLastCard ==
    \A playerId \in Seated(state), difficulty \in Difficulties, random \in Randoms :
        LET d == makeAIDecision(state, playerId, difficulty, random)
        IN d.action # "draw" =>
             (d.action = "call_uno"
                <=> LeftAfter(Len(HandOf(state, playerId)), d) = 1)

\* the player seated next after the current player in the direction of play
NextId(s) == s.players[SeatAfter(s, 1, s.direction) + 1].id

\* the cards a draw can reach in s: the draw pile and the discard pile below
\* its top card
Drawable(s) ==
    Len(s.drawPile) + (IF Len(s.discardPile) > 0 THEN Len(s.discardPile) - 1 ELSE 0)

\* the penalized player of s, if still seated in r, holds the pending draw
\* more, as far as there were cards to draw
TookPenalty(s, r) ==
    findIndex(r.players, CurrentId(s)) # -1 =>
        Len(HandOf(r, CurrentId(s)))
          = Len(HandOf(s, CurrentId(s))) + Min(s.pendingDrawCount, Drawable(s))

\* C26: processDrawPenalty gives the current player the whole pending draw,
\* clears pendingDrawCount and pendingDrawType, and advances the turn by
\* exactly 1 step from the penalized player: afterwards the current player is
\* the player who was next after the penalized player in the direction of
\* play, also when the penalty eliminates the penalized player.
PenaltyPassesTurn ==
    (hasCurrentPlayer(state) /\ state.pendingDrawCount > 0) =>
        \A seed \in Seeds :
            LET r == processDrawPenalty(state, seed)
            IN /\ ~IsThrow(r)
               /\ TookPenalty(state, r)
               /\ r.pendingDrawCount = 0
               /\ r.pendingDrawType = "null"
               /\ hasCurrentPlayer(r)
               /\ CurrentId(r) = NextId(state)

\* C27: when playCard empties the player's hand, the win overrides the turn
\* advance produced by the card's effect: in the resulting finished state
\* currentPlayerIndex still designates the winner rather than the next player.
WinnerKeepsTurn ==
    (/\ last.op = "playCard"
     /\ findIndex(state.players, last.player) # -1
     /\ HandOf(state, last.player) = <<>>)
    => /\ state.status = "finished"
       /\ state.winnerId = last.player
       /\ hasCurrentPlayer(state)
       /\ CurrentId(state) = state.winnerId

\* C28: in every reachable state currentPlayerIndex is a valid index into
\* players, 0 <= currentPlayerIndex < number of players, including right after
\* an elimination of the current player or of a player seated before or after.
IndexValid ==
    /\ 0 <= state.currentPlayerIndex
    /\ state.currentPlayerIndex < Len(state.players)

\* drawCards(s, playerId, count) finds the draw pile empty at one of its turns
\* of the loop
Reshuffles(s, count) == count > Len(s.drawPile)

\* r, the state drawCards returned for s, shows the top card and the colour of s
TopKept(s, r) ==
    /\ Len(r.discardPile) >= 1
    /\ getTopCard(r) = getTopCard(s)
    /\ r.currentColor = s.currentColor

\* C29: from startGame on the discard pile is never empty, and a reshuffle
\* inside drawCards keeps the former top card as the only card of the discard
\* pile: drawCards never changes which card is on top of the discard pile nor
\* currentColor.
TopCardStays ==
    state.status # "waiting" =>
        /\ Len(state.discardPile) >= 1
        /\ \A playerId \in Roster, count \in DrawCounts, seed \in Seeds :
             LET r == drawCards(state, playerId, count, seed)
             IN /\ ~IsThrow(r)
                /\ TopKept(state, r)
                /\ r.discardPile = IF Reshuffles(state, count)
                                   THEN <<getTopCard(state)>>
                                   ELSE state.discardPile

\* a draw recycled a discard pile of several cards: the player drew a card
\* under a fresh id, and the discard pile is its top card alone
ReshuffledUnderTop ==
    /\ last.op = "drawCards"
    /\ state.status = "playing"
    /\ Len(state.discardPile) = 1
    /\ state.discardPile[1] <= DeckSize
    /\ findIndex(state.players, last.player) # -1
    /\ \E c \in SeqToSet(HandOf(state, last.player)) : c > DeckSize

\* the players of s other than playerId sit in r with the hands they had
OthersKeepHands(s, r, playerId) ==
    \A i \in 1..Len(s.players) :
        s.players[i].id # playerId =>
            /\ findIndex(r.players, s.players[i].id) # -1
            /\ HandOf(r, s.players[i].id) = s.players[i].cards

\* r is s after playerId drew n cards: the hand is the former hand followed
\* by n cards and the flag is down; a hand that reached the limit is gone
Drew(s, r, playerId, n) ==
    /\ OthersKeepHands(s, r, playerId)
    /\ IF Len(HandOf(s, playerId)) + n >= EliminationLimit
       THEN findIndex(r.players, playerId) = -1
       ELSE /\ findIndex(r.players, playerId) # -1
            /\ Len(HandOf(r, playerId)) = Len(HandOf(s, playerId)) + n
            /\ SubSeq(HandOf(r, playerId), 1, Len(HandOf(s, playerId)))
                 = HandOf(s, playerId)
            /\ ~r.players[findIndex(r.players, playerId) + 1].hasCalledUno

\* C30 as stated: drawCards(state, p, count) adds exactly count cards to p's
\* hand (before any elimination check), reshuffling the discard pile whenever
\* the draw pile runs out, leaves every other player's hand unchanged, and
\* clears p's hasCalledUno flag.
DrawsCount ==
    state.status # "waiting" =>
        \A playerId \in Roster, count \in DrawCounts, seed \in Seeds :
            LET r == drawCards(state, playerId, count, seed)
                d == drawLoop(state.drawPile, state.discardPile, <<>>, count, seed)
            IN /\ ~IsThrow(r)
               /\ Len(d.drawnCards) = count
               /\ Drew(state, r, playerId, count)

\* C30: drawCards(state, p, count) adds to p's hand (before any elimination
\* check) count cards, or, when fewer are left, every card of the draw pile
\* and of the discard pile below its top card; it reshuffles the discard pile
\* whenever the draw pile runs out, leaves every other player's hand
\* unchanged, and clears p's hasCalledUno flag.
DrawsWhatIsLeft ==
    state.status # "waiting" =>
        \A playerId \in Roster, count \in DrawCounts, seed \in Seeds :
            LET r == drawCards(state, playerId, count, seed)
                d == drawLoop(state.drawPile, state.discardPile, <<>>, count, seed)
                n == Min(count, Drawable(state))
            IN /\ ~IsThrow(r)
               /\ Len(d.drawnCards) = n
               /\ Drew(state, r, playerId, n)
               /\ Reshuffles(state, count) =>
                      /\ d.discardPile = <<getTopCard(state)>>
                      /\ Len(d.drawPile) = Drawable(state) - n

\* a draw of MaxDrawCount cards that found fewer: no card was played or
\* recycled, the two piles hold the top card alone, and the player who drew
\* holds fewer cards than the first hand and the draw together
DrewThePilesEmpty ==
    /\ last.op = "drawCards"
    /\ last.count = MaxDrawCount
    /\ state.status = "playing"
    /\ state.drawPile = <<>>
    /\ Len(state.discardPile) = 1
    /\ \A c \in SeqToSet(AllCards(state)) : c <= DeckSize
    /\ findIndex(state.players, last.player) # -1
    /\ Len(HandOf(state, last.player)) < HandSize + MaxDrawCount
    /\ Len(HandOf(state, last.player)) > HandSize

\* C31: in a single player game, whenever the current player of a 'playing'
\* state is an AI seat, the scheduled AI action produces a new game state (a
\* card played, cards drawn, the penalty taken, or the game finished): no
\* reachable state leaves an AI seat as current player forever because the
\* AI's action raised an error.
AIActs ==
    aiScheduled(state) =>
        \A difficulty \in Difficulties, random \in Randoms,
           randomColor \in BaseColors, seed \in Seeds :
            ~IsThrow(aiAction(state, difficulty, random, randomColor, seed))

\* r is the state after playerId stacked one of the cards on the pending draw
StackedOneOf(s, r, playerId, cards, randomColor) ==
    \E i \in 1..Len(cards) : \E selectedColor \in BaseColors \cup {"none"} :
        r = playCard(s, playerId, cards[i], selectedColor, randomColor)

\* C32: when an AI seat faces a pending draw, it stacks whenever it holds a
\* card that canPlayCard accepts, and takes the penalty through
\* processDrawPenalty only when it holds no legal stacking card.
AIStacksWhenItCan ==
    (aiScheduled(state) /\ state.pendingDrawCount > 0) =>
        \A difficulty \in Difficulties, random \in Randoms,
           randomColor \in BaseColors, seed \in Seeds :
            LET id == CurrentId(state)
                playable == getPlayableCards(state, id)
                r == aiAction(state, difficulty, random, randomColor, seed)
            IN IF playable # <<>>
               THEN StackedOneOf(state, r, id, playable, randomColor)
               ELSE r = processDrawPenalty(state, seed)

\* s after n calls drawCards(s, playerId, 1), one after the other
RECURSIVE afterDraws(_, _, _, _)
afterDraws(s, playerId, n, seed) ==
    IF n = 0 \/ IsThrow(s) THEN s
    ELSE afterDraws(drawCards(s, playerId, 1, seed), playerId, n - 1, seed)

\* playerId holds a card that canPlayCard accepts in s
CanPlay(s, playerId) == ~IsThrow(s) /\ getPlayableCards(s, playerId) # <<>>

\* C33: the caller-level draw-until-playable action (human draw handler and
\* AI draw branch) terminates after at most 10 single-card draws and stops at
\* the first draw after which the player holds a playable card; it never
\* advances the turn by itself.
DrawLoopStops ==
    (state.status # "waiting" /\ hasCurrentPlayer(state)
       /\ state.pendingDrawCount = 0) =>
        \A playerId \in Roster, seed \in Seeds :
            LET r == drawUntilPlayable(state, playerId, 0, seed)
                n == drawCountAfter(state, playerId, 0, seed)
            IN /\ n <= MaxDraws
               /\ ~IsThrow(r) =>
                    /\ n >= 1
                    /\ r = afterDraws(state, playerId, n, seed)
                    /\ \A j \in 1..(n - 1) :
                           ~CanPlay(afterDraws(state, playerId, j, seed), playerId)
                    /\ CanPlay(r, playerId) \/ n = MaxDraws
                    /\ hasCurrentPlayer(r)
                    /\ CurrentId(r) = CurrentId(state)

\* the player to move drew several cards and stopped at the first playable
\* one, before the limit; another player, who can play nothing out of turn,
\* drew to the limit of 10 draws; the turn is where it was after both
StoppedAtFirstPlayable ==
    /\ state.status = "playing"
    /\ hasCurrentPlayer(state)
    /\ state.pendingDrawCount = 0
    /\ \E seed \in Seeds :
         LET r == drawUntilPlayable(state, CurrentId(state), 0, seed)
             n == drawCountAfter(state, CurrentId(state), 0, seed)
         IN /\ ~IsThrow(r)
            /\ n >= 2 /\ n < MaxDraws
            /\ CanPlay(r, CurrentId(state))
            /\ Len(HandOf(r, CurrentId(state)))
                 = Len(HandOf(state, CurrentId(state))) + n
            /\ CurrentId(r) = CurrentId(state)
    /\ \E playerId \in Roster, seed \in Seeds :
         LET r == drawUntilPlayable(state, playerId, 0, seed)
             n == drawCountAfter(state, playerId, 0, seed)
         IN /\ playerId # CurrentId(state)
            /\ ~IsThrow(r)
            /\ n = MaxDraws
            /\ Len(HandOf(r, playerId)) = Len(HandOf(state, playerId)) + MaxDraws
            /\ ~CanPlay(r, playerId)
            /\ CurrentId(r) = CurrentId(state)

\* the j-th draw of the draw loop started in s by playerId is made and
\* eliminates playerId: no draw before it left a playable card, and the
\* drawCards of the j-th turn returns a state without the player
EliminatedAtDraw(s, playerId, j, seed) ==
    /\ \A i \in 1..(j - 1) :
           LET a == afterDraws(s, playerId, i, seed)
           IN ~IsThrow(a) /\ findIndex(a.players, playerId) # -1
                          /\ ~CanPlay(a, playerId)
    /\ LET a == afterDraws(s, playerId, j, seed)
       IN ~IsThrow(a) /\ findIndex(a.players, playerId) = -1

\* C34: when a caller-level draw action (draw-until-playable loop, human or
\* AI) brings the drawing player's hand to 25 cards, the state that the caller
\* stores afterwards is the one in which that player has been eliminated; the
\* elimination is not lost by a later iteration of the loop.
EliminationStored ==
    (state.status # "waiting" /\ hasCurrentPlayer(state)
       /\ state.pendingDrawCount = 0) =>
        \A playerId \in Roster, seed \in Seeds, j \in 1..MaxDraws :
            EliminatedAtDraw(state, playerId, j, seed) =>
                /\ handleDrawCard(state, playerId, seed)
                     = afterDraws(state, playerId, j, seed)
                /\ \A difficulty \in Difficulties, random \in Randoms :
                     (aiScheduled(state) /\ playerId = CurrentId(state)
                        /\ getPlayableCards(state, playerId) = <<>>) =>
                       held(state, aiAction(state, difficulty, random, "red", seed))
                         = afterDraws(state, playerId, j, seed)

NotHeld(s, playerId) == SeqToSet(AllCards(s)) \ SeqToSet(HandOf(s, playerId))

\* C36: playCard, playMultipleCards and playDiscardAll move to the discard pile
\* only cards that are in the acting player's hand: a call naming a card the
\* player does not hold fails and leaves the state unchanged.
OnlyHeldCardsArePlayed ==
    (state.status # "waiting" /\ hasCurrentPlayer(state)) =>
        \A playerId \in Roster : \A c \in NotHeld(state, playerId) :
            /\ \A selectedColor \in ColorChoices(c), randomColor \in RouletteChoices(c) :
                   IsThrow(playCard(state, playerId, c, selectedColor, randomColor))
            /\ IsThrow(playDiscardAll(state, playerId, <<c>>))
            /\ \A h \in SeqToSet(HandOf(state, playerId)) :
                   /\ IsThrow(playMultipleCards(state, playerId, <<h, c>>))
                   /\ IsThrow(playMultipleCards(state, playerId, <<c, h>>))

\* C37: no play operation succeeds for a player who is not the current player:
\* playDiscardAll, like playCard and playMultipleCards, fails with the state
\* unchanged when playerId is not the player at currentPlayerIndex, so the
\* turn index only changes through an action of the current player.
PlaysOnlyInTurn ==
    (state.status # "waiting" /\ hasCurrentPlayer(state)) =>
        \A playerId \in Roster :
            playerId # CurrentId(state) =>
                /\ \A c \in SeqToSet(HandOf(state, playerId)) :
                     \A selectedColor \in ColorChoices(c),
                        randomColor \in RouletteChoices(c) :
                         IsThrow(playCard(state, playerId, c, selectedColor,
                                          randomColor))
                /\ \A cards \in MultiInputs(HandOf(state, playerId)) :
                     IsThrow(playMultipleCards(state, playerId, cards))
                /\ \A cards \in DiscardInputs(HandOf(state, playerId)) :
                     IsThrow(playDiscardAll(state, playerId, cards))

\* cards is one draw card that may be stacked on the pending draw of s
StacksOne(s, cards) ==
    /\ Len(cards) = 1
    /\ isDrawCard(Card(cards[1]).type)
    /\ canStackDrawCard(Card(cards[1]), s.pendingDrawType)

\* C38: while a pending draw is active, no operation moves a non-draw card to
\* the discard pile or passes the turn without either stacking a draw card or
\* resolving the penalty: playDiscardAll and playMultipleCards fail while
\* pendingDrawCount > 0.
PendingBlocksPlays ==
    (state.status # "waiting" /\ hasCurrentPlayer(state)
       /\ state.pendingDrawCount > 0) =>
        \A playerId \in Roster :
            /\ \A c \in SeqToSet(HandOf(state, playerId)) :
                 ~StacksOne(state, <<c>>) =>
                     \A selectedColor \in ColorChoices(c),
                        randomColor \in RouletteChoices(c) :
                         IsThrow(playCard(state, playerId, c, selectedColor,
                                          randomColor))
            /\ \A cards \in MultiInputs(HandOf(state, playerId)) :
                 IsThrow(playMultipleCards(state, playerId, cards))
            /\ \A cards \in DiscardInputs(HandOf(state, playerId)) :
                 IsThrow(playDiscardAll(state, playerId, cards))

\* C39: in every reachable state of a started game, a player whose
\* hasCalledUno flag is true holds at most 1 card: the flag is cleared by
\* startGame and by every draw, and can only be set at hand size exactly 1.
DeclaredHoldsOne ==
    state.status # "waiting" =>
        \A i \in 1..Len(state.players) :
            state.players[i].hasCalledUno => Len(state.players[i].cards) <= 1

\* a player declared with one card and still holds it, declared, after
\* another player drew cards; that player's own flag is down
DeclaredWhileOthersDraw ==
    /\ state.status = "playing"
    /\ last.op = "drawCards"
    /\ findIndex(state.players, last.player) # -1
    /\ ~state.players[findIndex(state.players, last.player) + 1].hasCalledUno
    /\ \E i \in 1..Len(state.players) :
         /\ state.players[i].id # last.player
         /\ state.players[i].hasCalledUno
         /\ Len(state.players[i].cards) = 1

\* C40: a human player can declare: whenever the interface offers the UNO
\* button to a player, the resulting callUno succeeds, so a player who plays
\* their second-to-last card can end that logical turn with hand size 1 and
\* hasCalledUno = true and is then protected from challengeUno.
UnoButtonDeclares ==
    state.status = "playing" =>
        \A playerId \in Roster :
            unoButton(state, playerId) =>
                /\ ~IsThrow(callUno(state, playerId))
                /\ handleCallUno(state, playerId)
                     .players[findIndex(state.players, playerId) + 1].hasCalledUno

====
